---- MODULE Spec2Model ----
(***************************************************************************)
(* DocSage: the question-answering pipeline of DocumentService            *)
(* (src/src/services/document_service.py) over the persistence gateway    *)
(* (src/src/database/models.py) and QAService (qa_service.py).            *)
(*                                                                         *)
(* Text is modelled as a sequence of tokens (words); substring tests of   *)
(* the code ("kw in question_lower", "I don't know" in answer) are        *)
(* contiguous-subsequence tests on tokens, and str.lower() is a map on    *)
(* tokens.  The language model, the agent, the embedding service and the  *)
(* database are collaborators: every call to one of them either yields a  *)
(* value drawn from a small set or raises.                                 *)
(*                                                                         *)
(* Spec is the application serving one request at a time; SpecRequests    *)
(* is the sidebar of src/app.py (sessions, documents, uploads, history)   *)
(* with the store before each request kept beside it; SpecSearch is a     *)
(* VectorStore (vector_store.py) on its own; SpecConc is two interleaved  *)
(* ask_question calls on one DocumentService.                              *)
(***************************************************************************)
EXTENDS Integers, Sequences, FiniteSets, TLC

VARIABLES
    documents,       \* table documents: existing id -> [originalName]
    chunks,          \* table chunks: set of [documentId, chunkIndex, content]
    chat_sessions,   \* table chat_sessions: set of existing chat ids
    chat_name,       \* ChatSession.name, per chat id: its words
    chat_documents,  \* table chat_documents: chat id -> chat.documents
    chat_messages,   \* table chat_messages: chat id -> messages by timestamp
    qa_chain,        \* QAService.qa_chain: None, or a chain bound to the
                     \* retriever built by that caller's ask_question
    call,            \* per caller: the ask_question invocation in progress
    request,         \* the sidebar request served last (or the upload being
                     \* served), with the store as it was before it
    vector_store     \* a VectorStore: its texts, and its last search

vars == <<documents, chunks, chat_sessions, chat_name, chat_documents,
          chat_messages, qa_chain, call, request, vector_store>>

store == <<documents, chunks, chat_sessions, chat_name, chat_documents,
           chat_messages>>

\* what ask_question never touches
aux == <<request, vector_store>>

----------------------------------------------------------------------------
(* Bounds of the model *)

\* most chunks the chunker yields for one uploaded file
MaxChunks == 1
\* ask_question is started only while the store holds fewer messages
MaxMsgs == 1

DocIds == {"d1", "d2"}
ChatIds == {"c1", "c2"}
Threads == {"t1", "t2"}
\* the name of the file a document is uploaded from
FileName(d) == IF d = "d1" THEN "A.pdf" ELSE "B.pdf"
\* a chat id no session ever has
NoChat == "none"

\* Config.SIMILARITY_TOP_K
SIMILARITY_TOP_K == 5

----------------------------------------------------------------------------
(* Text helpers *)

Range(s) == {s[i] : i \in 1..Len(s)}

\* Python's "needle in haystack" on token sequences
Contains(hay, needle) ==
    \E i \in 1..(Len(hay) + 1) :
        /\ i + Len(needle) - 1 <= Len(hay)
        /\ SubSeq(hay, i, i + Len(needle) - 1) = needle

\* str.lower() on one token
LowerTok(w) ==
    CASE w = "How" -> "how"
      [] w = "Many" -> "many"
      [] w = "Documents" -> "documents"
      [] w = "PDF" -> "pdf"
      [] w = "Any" -> "any"
      [] OTHER -> w

Lower(s) == [i \in 1..Len(s) |-> LowerTok(s[i])]

\* str(n) for the counts that occur
Str(n) ==
    CASE n = 0 -> "0" [] n = 1 -> "1" [] n = 2 -> "2" [] n = 3 -> "3"
      [] OTHER -> "many"

----------------------------------------------------------------------------
(* Persistence gateway: src/src/database/models.py *)

\* how a gateway write can end: committed and returned; raised before the
\* commit (rolled back, nothing written); raised by db.refresh after the
\* commit (the row is written and the caller still sees an exception)
PersistOutcomes == {"ok", "fail", "lost"}

Remove(s, x) == SelectSeq(s, LAMBDA y : y # x)

\* get_chunks_for_documents without its documentId filter
GetChunksUnfiltered(document_ids) == chunks

\* get_chunks_for_documents: the chunks whose documentId is in document_ids
\* (the order of the rows plays no part in what follows)
GetChunksForDocuments(document_ids) ==
    {ch \in chunks : ch.documentId \in Range(document_ids)}

\* create_chat_message: the messages table after the call
CreateChatMessage(chat_id, question, answer, outcome) ==
    IF outcome \in {"ok", "lost"}
    THEN [chat_messages EXCEPT
            ![chat_id] = Append(@, [question |-> question, answer |-> answer])]
    ELSE chat_messages

TotalMsgs ==
    LET RECURSIVE Sum(_)
        Sum(S) == IF S = {} THEN 0
                  ELSE LET c == CHOOSE x \in S : TRUE
                       IN Len(chat_messages[c]) + Sum(S \ {c})
    IN Sum(ChatIds)

AllIdle == \A t \in Threads : call[t].pc = "idle"

\* PDFProcessor.chunk_text on the text of file d: n pieces in text order,
\* each with its position in the list
ChunkText(d, n) ==
    [i \in 1..n |-> [content |-> <<FileName(d), Str(i)>>, chunk_index |-> i - 1]]

\* models.create_chunk: the row it commits
CreateChunk(document_id, content, chunk_index) ==
    [documentId |-> document_id, chunkIndex |-> chunk_index,
     content |-> content]

\* the loop of process_pdf numbering the chunks from 1
StoredChunksFromOne(d, n, outcome, k) ==
    LET stored == CASE outcome = "ok" -> n
                    [] outcome = "create_chunk" -> k
                    [] OTHER -> 0
    IN {CreateChunk(d, ChunkText(d, n)[i + 1].content, i + 1) :
            i \in 0..(stored - 1)}

\* chunks a process_pdf call leaves in the store: the chunker yields n
\* chunks, create_chunk is called for i = 0, 1, ... in list order, and the
\* call stops at the first failing step (the k-th create_chunk)
StoredChunks(d, n, outcome, k) ==
    LET stored == CASE outcome = "ok" -> n
                    [] outcome = "create_chunk" -> k
                    [] OTHER -> 0
    IN {CreateChunk(d, ChunkText(d, n)[i + 1].content, i) :
            i \in 0..(stored - 1)}

\* DocumentService.process_pdf: create_document, extract_text, chunk_text,
\* embed_documents, then create_chunk for i = 0..n-1
ProcessPdf(d, name, n, outcome, k) ==
    /\ d \notin DOMAIN documents
    /\ outcome = "create_chunk" => k < n
    /\ outcome # "create_chunk" => k = 0
    /\ IF outcome = "create_document"
       THEN UNCHANGED <<documents, chunks>>
       ELSE /\ documents' = documents @@ (d :> [originalName |-> name])
            /\ chunks' = chunks \cup StoredChunks(d, n, outcome, k)
    /\ UNCHANGED <<chat_sessions, chat_name, chat_documents, chat_messages,
                   qa_chain, call>>

\* "New Chat" in chat.name or "Chat " in chat.name, a name being the
\* sequence of its words: the words New Chat somewhere in it, or the word
\* Chat followed by a space and so by another word
HasDefaultName(name) ==
    \/ Contains(name, <<"New", "Chat">>)
    \/ \E i \in 1..(Len(name) - 1) : name[i] = "Chat"

\* _generate_smart_chat_name on the file names that occur: the extension
\* goes and the words are capitalised
SmartChatName(filename) ==
    CASE filename = "A.pdf" -> <<"A">>
      [] filename = "B.pdf" -> <<"B">>
      [] OTHER -> <<filename>>

\* DocumentService.create_chat_session
CreateChatSession(c, name) ==
    /\ c \notin chat_sessions
    /\ chat_sessions' = chat_sessions \cup {c}
    /\ chat_name' = [chat_name EXCEPT ![c] = name]
    /\ UNCHANGED <<documents, chunks, chat_documents, chat_messages,
                   qa_chain, call>>

\* DocumentService.delete_chat_session: the session, its messages (cascade)
\* and its association rows go
DeleteChatSession(c) ==
    /\ c \in chat_sessions
    /\ chat_sessions' = chat_sessions \ {c}
    /\ chat_name' = [chat_name EXCEPT ![c] = <<>>]
    /\ chat_documents' = [chat_documents EXCEPT ![c] = <<>>]
    /\ chat_messages' = [chat_messages EXCEPT ![c] = <<>>]
    /\ UNCHANGED <<documents, chunks, qa_chain, call>>

\* DocumentService.rename_chat_session
RenameChatSession(c, new_name) ==
    /\ chat_name' = IF c \in chat_sessions
                    THEN [chat_name EXCEPT ![c] = new_name]
                    ELSE chat_name
    /\ UNCHANGED <<documents, chunks, chat_sessions, chat_documents,
                   chat_messages, qa_chain, call>>

\* add_document_to_chat without "document not in chat.documents"
AddedDocumentsUnchecked(c, d) ==
    IF c \in chat_sessions /\ d \in DOMAIN documents
    THEN Append(chat_documents[c], d)
    ELSE chat_documents[c]

\* models.add_document_to_chat: chat.documents after the call
AddedDocuments(c, d) ==
    IF c \in chat_sessions /\ d \in DOMAIN documents
       /\ d \notin Range(chat_documents[c])
    THEN Append(chat_documents[c], d)
    ELSE chat_documents[c]

\* DocumentService.add_document_to_chat: attach, then rename a chat that
\* now has one document and still carries a default name
AddDocumentToChat(c, d) ==
    /\ chat_documents' = [chat_documents EXCEPT ![c] = AddedDocuments(c, d)]
    /\ chat_name' =
         IF /\ c \in chat_sessions
            /\ Len(AddedDocuments(c, d)) = 1
            /\ HasDefaultName(chat_name[c])
            /\ d \in DOMAIN documents
         THEN [chat_name EXCEPT ![c] = SmartChatName(documents[d].originalName)]
         ELSE chat_name
    /\ UNCHANGED <<documents, chunks, chat_sessions, chat_messages,
                   qa_chain, call>>

\* remove_document_from_chat deleting the document's chunks as well
RemoveDocumentAndChunks(c, d) ==
    /\ chat_documents' =
         [chat_documents EXCEPT
            ![c] = IF c \in chat_sessions /\ d \in DOMAIN documents
                   THEN Remove(@, d) ELSE @]
    /\ chunks' = {ch \in chunks : ch.documentId # d}
    /\ UNCHANGED <<documents, chat_sessions, chat_name, chat_messages,
                   qa_chain, call>>

\* DocumentService.remove_document_from_chat
RemoveDocumentFromChat(c, d) ==
    /\ chat_documents' =
         [chat_documents EXCEPT
            ![c] = IF c \in chat_sessions /\ d \in DOMAIN documents
                   THEN Remove(@, d) ELSE @]
    /\ UNCHANGED <<documents, chunks, chat_sessions, chat_name, chat_messages,
                   qa_chain, call>>

\* delete_document without the cascade to the association rows
DeleteDocumentKeepingLinks(d) ==
    /\ d \in DOMAIN documents
    /\ documents' = [x \in (DOMAIN documents) \ {d} |-> documents[x]]
    /\ chunks' = {ch \in chunks : ch.documentId # d}
    /\ UNCHANGED <<chat_sessions, chat_name, chat_documents, chat_messages,
                   qa_chain, call>>

\* DocumentService.remove_document_from_system: the document, its chunks
\* (cascade) and its association rows in every chat go
DeleteDocument(d) ==
    /\ d \in DOMAIN documents
    /\ documents' = [x \in (DOMAIN documents) \ {d} |-> documents[x]]
    /\ chunks' = {ch \in chunks : ch.documentId # d}
    /\ chat_documents' = [c \in ChatIds |-> Remove(chat_documents[c], d)]
    /\ UNCHANGED <<chat_sessions, chat_name, chat_messages, qa_chain, call>>

\* clear_chat_history without its filter on the session
ClearEveryHistory(c) ==
    /\ chat_messages' = [x \in ChatIds |-> <<>>]
    /\ UNCHANGED <<documents, chunks, chat_sessions, chat_name, chat_documents,
                   qa_chain, call>>

\* DocumentService.clear_chat_history
ClearChatHistory(c) ==
    /\ chat_messages' = [chat_messages EXCEPT ![c] = <<>>]
    /\ UNCHANGED <<documents, chunks, chat_sessions, chat_name, chat_documents,
                   qa_chain, call>>

----------------------------------------------------------------------------
(* DocumentService.ask_question and QAService *)

NoDocsMsg == <<"No documents found in this chat. Please add some documents first.">>
NoContentMsg == <<"No document content found. Please ensure documents are properly processed.">>
ApologyMsg == <<"Sorry, I encountered an error while processing your question. Please try again.">>

IDontKnow == <<"I", "don't", "know">>

\* questions a caller asks
Questions ==
    { <<"How", "Many", "Documents", "are", "loaded">>,
      <<"what", "is", "the", "revenue">> }

\* what the chain's language model can answer in the direct tier
DirectAnswers ==
    { <<>>, <<"Sorry,", "I", "don't", "know", "that">>, <<"Revenue", "rose">> }

\* what the agent's run can answer
AgentAnswers == { <<"Final", "Answer">>, <<"I", "don't", "know">> }

\* a raised exception of a collaborator, as an outcome beside its values
Raises == <<"raise">>

system_keywords ==
    { <<"any", "pdf">>, <<"pdf", "available">>, <<"documents", "available">>,
      <<"files", "available">>, <<"what", "pdf">>, <<"which", "pdf">>,
      <<"pdf", "loaded">>, <<"document", "loaded">>, <<"file", "info">>,
      <<"document", "info">>, <<"system", "status">>,
      <<"how", "many", "documents">>, <<"what", "documents">>,
      <<"which", "documents">> }

\* DocumentService._is_system_question
IsSystemQuestion(question) ==
    \E keyword \in system_keywords : Contains(Lower(question), keyword)

\* the f-strings of the system-status tier over documents_info
SystemAnswer(names) ==
    IF Len(names) = 1
    THEN <<"Yes,", "there", "is", "1", "PDF", "document", "in", "this", "chat:",
           names[1]>>
    ELSE <<"Yes,", "there", "are", Str(Len(names)), "PDF", "documents", "in",
           "this", "chat:">> \o names

\* the acceptance test of the direct tier without the marker test
DirectAnswerNonEmpty(answer) == answer # <<>>

\* direct_result['result'] and "I don't know" not in direct_result['result']
DirectAnswerGood(answer) == answer # <<>> /\ ~Contains(answer, IDontKnow)

\* the "no documents" test without "not chat.documents"
NoSession(chat_id) == chat_id \notin chat_sessions

\* not chat or not chat.documents
NoDocuments(chat_id) ==
    chat_id \notin chat_sessions \/ chat_documents[chat_id] = <<>>

\* self.qa_chain = None
NoChain == "None"

NoRetriever == [built |-> FALSE, texts |-> {}]

\* get_multi_document_retriever without its "if not chunks" return
RetrieverOverAnyChunks(document_ids) ==
    IF document_ids = <<>> THEN [built |-> FALSE, texts |-> {}]
    ELSE [built |-> TRUE, texts |-> GetChunksForDocuments(document_ids)]

\* DocumentService.get_multi_document_retriever, when no collaborator
\* raises: None, or a retriever over the texts of the listed documents
GetMultiDocumentRetriever(document_ids) ==
    IF document_ids = <<>> THEN NoRetriever
    ELSE IF GetChunksForDocuments(document_ids) = {} THEN NoRetriever
    ELSE [built |-> TRUE, texts |-> GetChunksForDocuments(document_ids)]

\* retriever.get_relevant_documents: the number of passages returned
RelevantDocuments(retriever) ==
    IF Cardinality(retriever.texts) < SIMILARITY_TOP_K
    THEN Cardinality(retriever.texts) ELSE SIMILARITY_TOP_K

Idle ==
    [pc |-> "idle", chat_id |-> NoChat, question |-> <<>>, docs |-> <<>>,
     names |-> <<>>, retriever |-> NoRetriever, log |-> <<>>,
     tier |-> "none", result |-> <<>>, raised |-> FALSE, before |-> 0,
     direct_result |-> <<>>, agent_result |-> <<>>, chain_texts |-> {}]

Logged(c, events) == [c EXCEPT !.log = @ \o events]

\* a return statement of ask_question: {"result": result}
Return(c, tier, result) ==
    [c EXCEPT !.pc = "done", !.tier = tier, !.result = result]

\* ask_question without its outer try: the exception reaches the caller
OuterReraise(c) ==
    [c EXCEPT !.pc = "done", !.tier = "error", !.result = <<>>,
              !.raised = TRUE]

\* the outer "except Exception" of ask_question: the apology is returned
OuterExcept(c) ==
    [c EXCEPT !.pc = "done", !.tier = "error", !.result = ApologyMsg,
              !.raised = FALSE]

Goto(c, pc) == [c EXCEPT !.pc = pc]

\* a caller invokes ask_question(chat_id, question)
AskStart(t, chat_id, question) ==
    /\ call[t].pc = "idle"
    /\ TotalMsgs < MaxMsgs
    /\ call' = [call EXCEPT ![t] =
                  [Idle EXCEPT !.pc = "lookup", !.chat_id = chat_id,
                               !.question = question,
                               !.before = IF chat_id \in ChatIds
                                          THEN Len(chat_messages[chat_id])
                                          ELSE 0]]
    /\ UNCHANGED <<store, qa_chain, aux>>

\* the mocked gateway's record of one create_chat_message call
PersistEvent(outcome) ==
    CASE outcome = "ok" -> "create_chat_message"
      [] outcome = "fail" -> "create_chat_message!"
      [] OTHER -> "create_chat_message!committed"

\* lines 141-145: get_chat_session, the "no documents" return, document_ids
AskLookup(t) ==
    /\ call[t].pc = "lookup"
    /\ \E ok \in BOOLEAN :
         LET c == call[t]
             docs == chat_documents[c.chat_id]
         IN call' = [call EXCEPT ![t] =
              IF ~ok THEN OuterExcept(Logged(c, <<"get_chat_session!">>))
              ELSE IF NoDocuments(c.chat_id)
              THEN Return(Logged(c, <<"get_chat_session">>), "none", NoDocsMsg)
              ELSE [Goto(Logged(c, <<"get_chat_session">>), "retriever") EXCEPT
                      !.docs = docs,
                      !.names = [i \in 1..Len(docs) |->
                                   documents[docs[i]].originalName]]]
    /\ UNCHANGED <<store, qa_chain, aux>>

\* lines 146-149 with get_multi_document_retriever: the chunk query, the
\* embedding of the texts and the index build, or the "no content" return
AskRetriever(t) ==
    /\ call[t].pc = "retriever"
    /\ \E outcome \in {"ok", "db_error", "embed_error"} :
         LET c == call[t]
             r == GetMultiDocumentRetriever(c.docs)
         IN call' = [call EXCEPT ![t] =
              IF c.docs = <<>> THEN Return(c, "none", NoContentMsg)
              ELSE IF outcome = "db_error"
              THEN OuterExcept(Logged(c, <<"get_chunks_for_documents!">>))
              ELSE IF ~r.built
              THEN Return(Logged(c, <<"get_chunks_for_documents">>), "none",
                          NoContentMsg)
              ELSE IF outcome = "embed_error"
              THEN OuterExcept(Logged(c, <<"get_chunks_for_documents",
                                           "embed_documents!">>))
              ELSE [Goto(Logged(c, <<"get_chunks_for_documents",
                                     "embed_documents", "build_index">>),
                         "system") EXCEPT !.retriever = r]]
    /\ UNCHANGED <<store, qa_chain, aux>>

\* what the system-status tier does once the answer is composed (lines
\* 165-166): persist it and return it; a failing create_chat_message
\* reaches the outer except
SystemDecision(c, answer, outcome) ==
    IF outcome = "ok"
    THEN Return(Logged(c, <<PersistEvent(outcome)>>), "system", answer)
    ELSE OuterExcept(Logged(c, <<PersistEvent(outcome)>>))

\* lines 152-166: documents_info, the keyword check and the system answer
AskSystem(t) ==
    /\ call[t].pc = "system"
    /\ LET c == Logged(call[t], <<"is_system_question">>)
           answer == SystemAnswer(c.names)
       IN IF IsSystemQuestion(c.question)
          THEN \E outcome \in PersistOutcomes :
                 /\ chat_messages' =
                      CreateChatMessage(c.chat_id, c.question, answer, outcome)
                 /\ call' = [call EXCEPT ![t] = SystemDecision(c, answer, outcome)]
          ELSE /\ call' = [call EXCEPT ![t] = Goto(c, "direct")]
               /\ UNCHANGED chat_messages
    /\ UNCHANGED <<documents, chunks, chat_sessions, chat_name, chat_documents,
                   qa_chain, aux>>

\* lines 169-176: the similarity search of the direct tier; an exception
\* is caught by the inner except and control goes on to the agentic tier
AskDirectRetrieve(t) ==
    /\ call[t].pc = "direct"
    /\ \E ok \in BOOLEAN :
         LET c == call[t]
         IN call' = [call EXCEPT ![t] =
              IF ~ok THEN Goto(Logged(c, <<"get_relevant_documents!">>), "agent")
              ELSE IF RelevantDocuments(c.retriever) > 0
              THEN Goto(Logged(c, <<"get_relevant_documents">>), "setup")
              ELSE Goto(Logged(c, <<"get_relevant_documents">>), "agent")]
    /\ UNCHANGED <<store, qa_chain, aux>>

\* line 179, QAService.setup_qa_chain: the chain is bound to the retriever
AskSetupChain(t) ==
    /\ call[t].pc = "setup"
    /\ qa_chain' = t
    /\ call' = [call EXCEPT ![t] =
                  Goto(Logged(call[t], <<"setup_qa_chain">>), "answer")]
    /\ UNCHANGED <<store, aux>>

\* the direct tier without "return direct_result": the answer is persisted
\* and control goes on to the agentic tier
DirectDecisionNoReturn(c, answer, outcome) ==
    IF answer = Raises THEN Goto(Logged(c, <<"llm!">>), "agent")
    ELSE LET d == Logged([c EXCEPT !.direct_result = answer], <<"llm">>)
         IN IF DirectAnswerGood(answer)
            THEN Goto(Logged(d, <<PersistEvent(outcome)>>), "agent")
            ELSE Goto(d, "agent")

\* the direct tier without its inner try: an exception of the model call
\* or of create_chat_message reaches the outer except
DirectDecisionNoInnerTry(c, answer, outcome) ==
    IF answer = Raises THEN OuterExcept(Logged(c, <<"llm!">>))
    ELSE LET d == Logged([c EXCEPT !.direct_result = answer], <<"llm">>)
         IN IF DirectAnswerGood(answer)
            THEN IF outcome = "ok"
                 THEN Return(Logged(d, <<PersistEvent(outcome)>>), "direct", answer)
                 ELSE OuterExcept(Logged(d, <<PersistEvent(outcome)>>))
            ELSE Goto(d, "agent")

\* what the direct tier does with the outcome of the model call (lines
\* 184-188): a good answer is persisted and returned; an exception of the
\* model call or of create_chat_message is caught by the inner except and
\* control goes on to the agentic tier, as it does after a poor answer
DirectDecision(c, answer, outcome) ==
    IF answer = Raises THEN Goto(Logged(c, <<"llm!">>), "agent")
    ELSE LET d == Logged([c EXCEPT !.direct_result = answer], <<"llm">>)
         IN IF DirectAnswerGood(answer)
            THEN IF outcome = "ok"
                 THEN Return(Logged(d, <<PersistEvent(outcome)>>), "direct", answer)
                 ELSE Goto(Logged(d, <<PersistEvent(outcome)>>), "agent")
            ELSE Goto(d, "agent")

\* lines 180-188 with QAService.get_answer(use_web_search=False)
AskGetAnswer(t) ==
    /\ call[t].pc = "answer"
    /\ IF qa_chain = NoChain
       THEN /\ call' = [call EXCEPT ![t] =
                          Goto(Logged(call[t], <<"get_answer!">>), "agent")]
            /\ UNCHANGED chat_messages
       ELSE \E answer \in DirectAnswers \cup {Raises}, outcome \in PersistOutcomes :
              LET c == [call[t] EXCEPT
                          !.chain_texts = call[qa_chain].retriever.texts]
              IN /\ call' = [call EXCEPT ![t] = DirectDecision(c, answer, outcome)]
                 /\ chat_messages' =
                      IF answer # Raises /\ DirectAnswerGood(answer)
                      THEN CreateChatMessage(c.chat_id, c.question, answer, outcome)
                      ELSE chat_messages
    /\ UNCHANGED <<documents, chunks, chat_sessions, chat_name, chat_documents,
                   qa_chain, aux>>

\* what the agentic tier does with the agent's answer (lines 192-193):
\* persist it and return it; a failing create_chat_message reaches the
\* outer except
AgentDecision(c, answer, outcome) ==
    LET d == Logged([c EXCEPT !.agent_result = answer],
                    <<"agent_run", PersistEvent(outcome)>>)
    IN IF outcome = "ok" THEN Return(d, "agentic", answer) ELSE OuterExcept(d)

\* lines 191-193 with QAService.get_agent_answer: the web-search tool is
\* constructed (it raises when SERPER_API_KEY is not set), the agent runs,
\* its answer is persisted and returned; any exception reaches the outer
\* except
AskAgent(t) ==
    /\ call[t].pc = "agent"
    /\ \E serper_api_key \in BOOLEAN, answer \in AgentAnswers \cup {Raises},
          outcome \in PersistOutcomes :
         LET c == Logged(call[t], <<"get_agent_answer">>)
         IN IF ~serper_api_key
            THEN /\ call' = [call EXCEPT ![t] =
                      OuterExcept(Logged(c, <<"get_web_search_tool!">>))]
                 /\ UNCHANGED chat_messages
            ELSE IF answer = Raises
            THEN /\ call' = [call EXCEPT ![t] =
                      OuterExcept(Logged(c, <<"get_web_search_tool", "agent_run!">>))]
                 /\ UNCHANGED chat_messages
            ELSE /\ chat_messages' =
                      CreateChatMessage(c.chat_id, c.question, answer, outcome)
                 /\ call' = [call EXCEPT ![t] =
                      AgentDecision(Logged(c, <<"get_web_search_tool">>),
                                    answer, outcome)]
    /\ UNCHANGED <<documents, chunks, chat_sessions, chat_name, chat_documents,
                   qa_chain, aux>>

\* the caller has the outcome of ask_question and is ready for the next
AskReturn(t) ==
    /\ call[t].pc = "done"
    /\ call' = [call EXCEPT ![t] = Idle]
    /\ UNCHANGED <<store, qa_chain, aux>>

----------------------------------------------------------------------------
(* The web-search tool: src/src/services/web_search.py *)

\* how the request of serper_search can end
SerperResponses == {"organic", "empty", "http_error", "timeout", "bad_json"}

\* serper_search: the tool's output; every exception of the request is
\* turned into an error string
SerperSearch(response) ==
    CASE response = "organic" -> <<"title:", "link", "snippet">>
      [] response = "empty" -> <<"No results found.">>
      [] OTHER -> <<"Serper Search error:", response>>

----------------------------------------------------------------------------
(* VectorStore: src/src/services/vector_store.py *)

\* most texts an index is built over
MaxTexts == 3
\* largest k a search asks for
MaxK == 4
\* largest distance between the query and a text
MaxDistance == 2

\* the texts handed to create_index: n different texts
Texts(n) == [i \in 1..n |-> <<"text", i>>]

\* __init__: self.index = None, self.texts = []; indexed is the number of
\* vectors in self.index (0 for None); k, distance, results and raised
\* describe the last similarity_search
NoIndex ==
    [texts |-> <<>>, indexed |-> 0, k |-> 0, distance |-> <<>>,
     results |-> <<>>, raised |-> FALSE]

\* Python's list[idx]: a negative idx counts from the end of the list
PyItem(list, idx) ==
    IF idx >= 0 THEN list[idx + 1] ELSE list[Len(list) + idx + 1]

\* faiss IndexFlatL2.search(query_vec, k) on an index of Len(distance)
\* vectors, distance[i] being the distance from the query to vector i-1:
\* the label rows I[0] it can return.  A row has k labels: the min(k, n)
\* nearest vectors by non-decreasing distance (equal distances in any
\* order), then -1 for every neighbour that does not exist
FaissSearch(distance, k) ==
    LET n == Len(distance)
        m == IF k < n THEN k ELSE n
    IN {I \in [1..k -> (0..(n - 1)) \cup {-1}] :
          /\ \A i \in 1..m : I[i] >= 0
          /\ \A i \in (m + 1)..k : I[i] = -1
          /\ \A i, j \in 1..m :
                i < j => /\ I[i] # I[j]
                         /\ distance[I[i] + 1] <= distance[I[j] + 1]
          /\ \A x \in 0..(n - 1) :
                (\A i \in 1..m : I[i] # x) =>
                    \A i \in 1..m : distance[I[i] + 1] <= distance[x + 1]}

\* lines 33-37 of similarity_search: the results built from the labels
SearchResults(texts, I) ==
    LET kept == SelectSeq(I, LAMBDA idx : idx < Len(texts))
    IN [i \in 1..Len(kept) |->
          [content |-> PyItem(texts, kept[i]), index |-> kept[i]]]

\* VectorStore.create_index: self.texts is assigned first; when the
\* embedding call raises, self.index stays what it was
CreateIndex(n, ok) ==
    /\ vector_store' =
         [NoIndex EXCEPT !.texts = Texts(n),
                         !.indexed = IF ok THEN n ELSE vector_store.indexed,
                         !.raised = ~ok]
    /\ UNCHANGED <<store, qa_chain, call, request>>

\* VectorStore.similarity_search(query, k); distance stands for the query
SimilaritySearch(k, distance, I) ==
    /\ vector_store' =
         IF vector_store.indexed = 0
         THEN [vector_store EXCEPT !.k = k, !.distance = <<>>,
                                   !.results = <<>>, !.raised = TRUE]
         ELSE [vector_store EXCEPT
                 !.k = k, !.distance = distance,
                 !.results = SearchResults(vector_store.texts, I),
                 !.raised = FALSE]
    /\ UNCHANGED <<store, qa_chain, call, request>>

----------------------------------------------------------------------------
(* The sidebar of src/app.py: requests on the store, and the record kept *)
(* of the request served last                                            *)

\* most chunks the chunker yields for a file of an "Add to Chat" upload
MaxPieces == 2
\* the sidebar's history holds at most this many messages in all
MaxHistory == 2

\* the store as it is
Snapshot ==
    [documents |-> documents, chunks |-> chunks,
     chat_sessions |-> chat_sessions, chat_name |-> chat_name,
     chat_documents |-> chat_documents, chat_messages |-> chat_messages]

\* the store after construction
EmptyStore ==
    [documents |-> <<>>, chunks |-> {}, chat_sessions |-> {},
     chat_name |-> [c \in ChatIds |-> <<>>],
     chat_documents |-> [c \in ChatIds |-> <<>>],
     chat_messages |-> [c \in ChatIds |-> <<>>]]

NoDoc == "none"

\* no request served yet
NoRequest ==
    [op |-> "none", chat_id |-> NoChat, doc_id |-> NoDoc, pc |-> "done",
     files |-> <<>>, todo |-> <<>>, step |-> "none", before |-> EmptyStore]

\* the record of a request served in one call
Served(op, c, d) ==
    [NoRequest EXCEPT !.op = op, !.chat_id = c, !.doc_id = d,
                      !.before = Snapshot]

\* the script is not in the middle of serving a request
Ready == AllIdle /\ request.pc \in {"done", "raised"}

\* the question of the messages in the sidebar's history
HistoryQuestion == <<"what", "is", "the", "revenue">>

\* the ways process_pdf can end: "ok", or the step that raised
IngestOutcomes ==
    {"ok", "create_document", "extract_text", "embed_documents", "create_chunk"}

\* the files of one upload: one or two new files
Batches ==
    {<<d>> : d \in DocIds}
        \cup {fs \in {<<d, e>> : d \in DocIds, e \in DocIds} : fs[1] # fs[2]}

\* "Add to Chat" is clicked with files selected and a current chat
UploadStart(c, files) ==
    /\ Ready
    /\ c \in chat_sessions
    /\ \A i \in 1..Len(files) : files[i] \notin DOMAIN documents
    /\ request' = [Served("upload", c, NoDoc) EXCEPT
                     !.pc = "process", !.files = files, !.todo = files]
    /\ UNCHANGED <<store, qa_chain, call, vector_store>>

\* the loop body, first half: process_pdf on the next file; its exception
\* is not caught, so it ends the loop and the script run
UploadProcess(n, outcome, k) ==
    /\ request.op = "upload" /\ request.pc = "process"
    /\ ProcessPdf(Head(request.todo), FileName(Head(request.todo)), n, outcome, k)
    /\ request' =
         IF outcome = "ok" THEN [request EXCEPT !.pc = "attach"]
         ELSE [request EXCEPT !.pc = "raised", !.step = outcome,
                              !.doc_id = Head(request.todo)]
    /\ UNCHANGED vector_store

\* the loop body, second half: add_document_to_chat(current_chat_id, doc.id)
UploadAttach ==
    /\ request.op = "upload" /\ request.pc = "attach"
    /\ AddDocumentToChat(request.chat_id, Head(request.todo))
    /\ request' =
         [request EXCEPT
            !.todo = Tail(@),
            !.pc = IF Tail(request.todo) = <<>> THEN "done" ELSE "process"]
    /\ UNCHANGED vector_store

----------------------------------------------------------------------------
(* The application: one request at a time *)

\* the name a caller gives a new chat session (none of the default names
\* the auto-rename of add_document_to_chat looks for)
ChatNames == {<<"Research">>}

Init ==
    /\ documents = <<>>
    /\ chunks = {}
    /\ chat_sessions = {}
    /\ chat_name = [c \in ChatIds |-> <<>>]
    /\ chat_documents = [c \in ChatIds |-> <<>>]
    /\ chat_messages = [c \in ChatIds |-> <<>>]
    /\ qa_chain = NoChain
    /\ call = [t \in Threads |-> Idle]
    /\ request = NoRequest
    /\ vector_store = NoIndex

Upload ==
    \E d \in DocIds, n \in 0..MaxChunks, k \in 0..MaxChunks,
       outcome \in {"ok", "create_document", "extract_text",
                    "embed_documents", "create_chunk"} :
        AllIdle /\ ProcessPdf(d, FileName(d), n, outcome, k) /\ UNCHANGED aux

NewChat ==
    \E c \in ChatIds, name \in ChatNames :
        AllIdle /\ CreateChatSession(c, name) /\ UNCHANGED aux

DeleteChat ==
    \E c \in ChatIds : AllIdle /\ DeleteChatSession(c) /\ UNCHANGED aux

Attach ==
    \E c \in ChatIds, d \in DocIds :
        AllIdle /\ AddDocumentToChat(c, d) /\ UNCHANGED aux

Detach ==
    \E c \in ChatIds, d \in DocIds :
        AllIdle /\ RemoveDocumentFromChat(c, d) /\ UNCHANGED aux

DeleteDoc == \E d \in DocIds : AllIdle /\ DeleteDocument(d) /\ UNCHANGED aux

ClearHistory ==
    \E c \in ChatIds : AllIdle /\ ClearChatHistory(c) /\ UNCHANGED aux

\* the one caller of the single-request-at-a-time application
Caller == "t1"

Ask ==
    \E c \in ChatIds \cup {NoChat}, q \in Questions :
        AllIdle /\ AskStart(Caller, c, q)

AskStep ==
    \E t \in Threads :
        \/ AskLookup(t)
        \/ AskRetriever(t)
        \/ AskSystem(t)
        \/ AskDirectRetrieve(t)
        \/ AskSetupChain(t)
        \/ AskGetAnswer(t)
        \/ AskAgent(t)
        \/ AskReturn(t)

Next ==
    \/ Upload
    \/ NewChat
    \/ DeleteChat
    \/ Attach
    \/ Detach
    \/ DeleteDoc
    \/ ClearHistory
    \/ Ask
    \/ AskStep

Spec == Init /\ [][Next]_vars

----------------------------------------------------------------------------
(* The sidebar requests, each recorded with the store before it *)

ReqNewChat ==
    \E c \in ChatIds, name \in ChatNames :
        /\ Ready
        /\ CreateChatSession(c, name)
        /\ request' = Served("create_chat_session", c, NoDoc)
        /\ UNCHANGED vector_store

ReqDeleteChat ==
    \E c \in ChatIds :
        /\ Ready
        /\ DeleteChatSession(c)
        /\ request' = Served("delete_chat_session", c, NoDoc)
        /\ UNCHANGED vector_store

ReqAttach ==
    \E c \in ChatIds, d \in DocIds :
        /\ Ready
        /\ AddDocumentToChat(c, d)
        /\ request' = Served("add_document_to_chat", c, d)
        /\ UNCHANGED vector_store

ReqDetach ==
    \E c \in ChatIds, d \in DocIds :
        /\ Ready
        /\ RemoveDocumentFromChat(c, d)
        /\ request' = Served("remove_document_from_chat", c, d)
        /\ UNCHANGED vector_store

ReqDeleteDoc ==
    \E d \in DocIds :
        /\ Ready
        /\ DeleteDocument(d)
        /\ request' = Served("delete_document", NoChat, d)
        /\ UNCHANGED vector_store

ReqClearHistory ==
    \E c \in ChatIds :
        /\ Ready
        /\ ClearChatHistory(c)
        /\ request' = Served("clear_chat_history", c, NoDoc)
        /\ UNCHANGED vector_store

\* a question answered on a session: its message joins the history
ReqMessage ==
    \E c \in chat_sessions :
        /\ Ready
        /\ TotalMsgs < MaxHistory
        /\ chat_messages' =
             CreateChatMessage(c, HistoryQuestion, IDontKnow, "ok")
        /\ request' = Served("create_chat_message", c, NoDoc)
        /\ UNCHANGED <<documents, chunks, chat_sessions, chat_name,
                       chat_documents, qa_chain, call, vector_store>>

ReqUpload == \E c \in ChatIds, files \in Batches : UploadStart(c, files)

ReqUploadProcess ==
    \E n \in 0..MaxPieces, k \in 0..MaxPieces, outcome \in IngestOutcomes :
        UploadProcess(n, outcome, k)

ReqUploadAttach == UploadAttach

NextRequests ==
    \/ ReqNewChat
    \/ ReqDeleteChat
    \/ ReqAttach
    \/ ReqDetach
    \/ ReqDeleteDoc
    \/ ReqClearHistory
    \/ ReqMessage
    \/ ReqUpload
    \/ ReqUploadProcess
    \/ ReqUploadAttach

SpecRequests == Init /\ [][NextRequests]_vars

----------------------------------------------------------------------------
(* The names of the chat sessions: sessions are created under a default *)
(* name, renamed by the user, and documents come and go                 *)

\* the names a session is created with: the default of
\* create_chat_session, and the "Chat <month/day> <hour:minute>" of the
\* "New Chat" button
DefaultNames == { <<"New", "Chat">>, <<"Chat", "11/05", "10:00">> }

\* names the user types into the rename dialog
UserNames == { <<"Research">>, <<"Chat", "with", "legal">> }

ReqNewDefaultChat ==
    \E c \in ChatIds, name \in DefaultNames :
        /\ Ready
        /\ CreateChatSession(c, name)
        /\ request' = Served("create_chat_session", c, NoDoc)
        /\ UNCHANGED vector_store

ReqRename ==
    \E c \in ChatIds, new_name \in UserNames :
        /\ Ready
        /\ RenameChatSession(c, new_name)
        /\ request' = Served("rename_chat_session", c, NoDoc)
        /\ UNCHANGED vector_store

ReqIngest ==
    \E d \in DocIds, n \in 0..MaxChunks :
        /\ Ready
        /\ ProcessPdf(d, FileName(d), n, "ok", 0)
        /\ request' = Served("process_pdf", NoChat, d)
        /\ UNCHANGED vector_store

NextNames ==
    \/ ReqNewDefaultChat
    \/ ReqRename
    \/ ReqIngest
    \/ ReqAttach
    \/ ReqDetach
    \/ ReqDeleteDoc
    \/ ReqDeleteChat

SpecNames == Init /\ [][NextNames]_vars

----------------------------------------------------------------------------
(* A VectorStore on its own: indexes are built and searched *)

BuildIndex == \E n \in 1..MaxTexts, ok \in BOOLEAN : CreateIndex(n, ok)

Search ==
    \E k \in 1..MaxK,
       distance \in [1..vector_store.indexed -> 0..MaxDistance] :
        \E I \in FaissSearch(distance, k) : SimilaritySearch(k, distance, I)

NextSearch == BuildIndex \/ Search

SpecSearch == Init /\ [][NextSearch]_vars

----------------------------------------------------------------------------
(* Two callers of one DocumentService, each asking once on its own session *)

\* the session a caller asks on
SessionOf(t) == IF t = "t1" THEN "c1" ELSE "c2"

\* document d1 is attached to session c1 and d2 to c2, one chunk each
InitConc ==
    /\ documents = [d \in DocIds |-> [originalName |-> FileName(d)]]
    /\ chunks = StoredChunks("d1", 1, "ok", 0) \cup StoredChunks("d2", 1, "ok", 0)
    /\ chat_sessions = ChatIds
    /\ chat_name = [c \in ChatIds |-> <<"Research">>]
    /\ chat_documents = [c \in ChatIds |-> IF c = "c1" THEN <<"d1">> ELSE <<"d2">>]
    /\ chat_messages = [c \in ChatIds |-> <<>>]
    /\ qa_chain = NoChain
    /\ call = [t \in Threads |-> Idle]
    /\ request = NoRequest
    /\ vector_store = NoIndex

ConcAsk ==
    \E t \in Threads, q \in Questions :
        AskStart(t, SessionOf(t), q)

ConcStep ==
    \E t \in Threads :
        \/ AskLookup(t)
        \/ AskRetriever(t)
        \/ AskSystem(t)
        \/ AskDirectRetrieve(t)
        \/ AskSetupChain(t)
        \/ AskGetAnswer(t)
        \/ AskAgent(t)

NextConc == ConcAsk \/ ConcStep

SpecConc == InitConc /\ [][NextConc]_vars

----------------------------------------------------------------------------
(* Properties *)

Count(log, events) == Cardinality({i \in 1..Len(log) : log[i] \in events})

\* the position of the first of the events in the log, 0 when none is there
FirstPos(log, events) ==
    IF \E i \in 1..Len(log) : log[i] \in events
    THEN CHOOSE i \in 1..Len(log) :
            /\ log[i] \in events
            /\ \A j \in 1..(i - 1) : log[j] \notin events
    ELSE 0

SystemTierEvents == {"is_system_question"}
DirectTierEvents == {"get_relevant_documents", "get_relevant_documents!"}
AgenticTierEvents == {"get_agent_answer"}
PersistFailures == {"create_chat_message!", "create_chat_message!committed"}
TierAnswers == {"system", "direct", "agentic"}

\* the chunks of the documents attached to a chat in the current store
AttachedChunks(chat_id) ==
    {ch \in chunks :
        \E i \in 1..Len(chat_documents[chat_id]) :
            chat_documents[chat_id][i] = ch.documentId}

\* the messages a chat's history has gained since the call began
Gained(c) ==
    IF c.chat_id \in ChatIds
    THEN SubSeq(chat_messages[c.chat_id], c.before + 1,
                Len(chat_messages[c.chat_id]))
    ELSE <<>>

\* C1: in every ask_question call the tiers start in the order
\* system-status, direct, agentic, each at most once and none before its
\* predecessor; a tier's answer, once persisted, is returned at once: it is
\* the last event of the call, so no later tier starts after it.
C1_TiersInOrderFirstAnswerEnds ==
    \A t \in Threads :
        LET c == call[t]
            sys == FirstPos(c.log, SystemTierEvents)
            dir == FirstPos(c.log, DirectTierEvents)
            ag == FirstPos(c.log, AgenticTierEvents)
        IN /\ Count(c.log, SystemTierEvents) <= 1
           /\ Count(c.log, DirectTierEvents) <= 1
           /\ Count(c.log, AgenticTierEvents) <= 1
           /\ dir > 0 => (sys > 0 /\ sys < dir)
           /\ ag > 0 => (dir > 0 /\ dir < ag)
           /\ (c.retriever.built /\ c.pc # "system") => sys > 0
           /\ \A i \in 1..Len(c.log) :
                c.log[i] = "create_chat_message" =>
                    /\ i = Len(c.log)
                    /\ c.pc = "done"
                    /\ c.tier \in TierAnswers
           /\ c.tier = "system" => (dir = 0 /\ ag = 0)
           /\ c.tier = "direct" => ag = 0
           /\ c.tier = "agentic" => ag > 0

\* a call returned the direct tier's answer after the system-status check
C1_Witness ==
    \E t \in Threads :
        /\ call[t].pc = "done"
        /\ call[t].tier = "direct"
        /\ "is_system_question" \in Range(call[t].log)

\* C2: the retriever of an ask_question call, and the chain the direct
\* tier's model call runs on, hold exactly the chunks of the documents
\* attached to the call's own chat at that time.
C2_RetrieverHoldsOwnChunks ==
    \A t \in Threads :
        LET c == call[t]
        IN /\ c.retriever.built =>
                c.retriever.texts = AttachedChunks(c.chat_id)
           /\ (\E i \in 1..Len(c.log) : c.log[i] \in {"llm", "llm!"}) =>
                c.chain_texts = AttachedChunks(c.chat_id)

\* a retriever is built for one chat while a document with chunks is
\* attached to the other chat only
C2_Witness ==
    \E t \in Threads, other \in ChatIds :
        /\ call[t].retriever.built
        /\ other # call[t].chat_id
        /\ \E ch \in AttachedChunks(other) :
              ch \notin AttachedChunks(call[t].chat_id)

\* C3: when the direct tier's model answer is empty or contains the
\* marker "I don't know", that answer is neither returned nor persisted,
\* get_agent_answer is invoked exactly once, and the call returns the
\* agentic answer (the apology if the agentic tier itself fails).
C3_UncertainDirectFallsThrough ==
    \A t \in Threads :
        LET c == call[t]
            uncertain == /\ "llm" \in Range(c.log)
                         /\ (c.direct_result = <<>>
                             \/ Contains(c.direct_result, IDontKnow))
        IN uncertain =>
             /\ c.pc \in {"agent", "done"}
             /\ \A i \in 1..Len(Gained(c)) :
                    Gained(c)[i].answer # c.direct_result
             /\ c.pc = "done" =>
                  /\ Count(c.log, AgenticTierEvents) = 1
                  /\ c.tier \in {"agentic", "error"}
                  /\ c.result # c.direct_result
                  /\ c.tier = "agentic" => c.result = c.agent_result
                  /\ "create_chat_message" \in Range(c.log) =>
                        (c.tier = "agentic" /\ c.result = c.agent_result)

\* the model answered with the marker and the call returned the agent's answer
C3_Witness ==
    \E t \in Threads :
        /\ call[t].pc = "done"
        /\ "llm" \in Range(call[t].log)
        /\ Contains(call[t].direct_result, IDontKnow)
        /\ call[t].tier = "agentic"
        /\ call[t].result = call[t].agent_result

\* C4: a call that ends with the answer of the system-status, direct or
\* agentic tier has appended exactly one message to its session, that
\* question with that answer.
C4_ExactlyOneMessagePerAnswer ==
    \A t \in Threads :
        LET c == call[t]
        IN (c.pc = "done" /\ c.tier \in TierAnswers) =>
             Gained(c) = <<[question |-> c.question, answer |-> c.result]>>

\* C5 as stated: when a tier throws (the model call of the direct tier or
\* the agent run of the agentic tier raises) the call returns the apology
\* and persists no message for the question.
C5_AnyTierFailureApologises ==
    \A t \in Threads :
        LET c == call[t]
        IN (c.pc = "done"
            /\ \E i \in 1..Len(c.log) : c.log[i] \in {"llm!", "agent_run!"}) =>
             (c.result = ApologyMsg /\ Gained(c) = <<>>)

\* C5 amended: when the agentic tier throws, the call returns the apology
\* and that tier persists nothing (the history gains a message only where
\* a create_chat_message of the direct tier committed before raising);
\* when the direct tier throws, the call goes on to the agentic tier, the
\* direct tier persists nothing, and the agentic answer is returned and
\* persisted once if that tier succeeds.
C5_AgenticFailureApologisesDirectFallsThrough ==
    \A t \in Threads :
        LET c == call[t]
            agenticThrew == \E i \in 1..Len(c.log) :
                               c.log[i] \in {"agent_run!", "get_web_search_tool!"}
            directThrew == \E i \in 1..Len(c.log) :
                               c.log[i] \in {"get_relevant_documents!", "llm!"}
        IN /\ agenticThrew =>
                /\ c.pc = "done"
                /\ c.tier = "error"
                /\ c.result = ApologyMsg
                /\ Len(Gained(c)) = Count(c.log, {"create_chat_message!committed"})
                /\ \A i \in 1..Len(Gained(c)) :
                       Gained(c)[i].answer = c.direct_result
           /\ directThrew =>
                /\ c.pc \in {"agent", "done"}
                /\ c.tier # "direct"
                /\ c.pc = "agent" => Gained(c) = <<>>
                /\ c.pc = "done" =>
                     /\ Count(c.log, AgenticTierEvents) = 1
                     /\ "create_chat_message" \in Range(c.log) =>
                          /\ c.tier = "agentic"
                          /\ c.result = c.agent_result
                          /\ Gained(c) = <<[question |-> c.question,
                                            answer |-> c.agent_result]>>

\* the direct tier's model call raised and the call returned the agent's
\* answer, and an agent that raised ended a call with the apology
C5_Witness ==
    \E t \in Threads :
        /\ call[t].pc = "done"
        /\ "llm!" \in Range(call[t].log)
        /\ call[t].tier = "agentic"
        /\ Len(Gained(call[t])) = 1

\* C6: a call answered by the system-status tier returns an answer holding
\* every attached document's name and the document count, and invokes no
\* embedding call, index build, similarity search or language model.
C6_SystemTierUsesMetadataOnly ==
    \A t \in Threads :
        LET c == call[t]
        IN (c.pc = "done" /\ c.tier = "system") =>
             /\ \A i \in 1..Len(c.names) : Contains(c.result, <<c.names[i]>>)
             /\ Contains(c.result, <<Str(Len(c.names))>>)
             /\ Range(c.log) \cap
                  {"embed_documents", "embed_documents!", "build_index",
                   "get_relevant_documents", "get_relevant_documents!",
                   "llm", "llm!", "get_agent_answer", "agent_run",
                   "agent_run!"} = {}

\* C7: a call on a chat id without session, or on a session without
\* attached documents, performs the session lookup and nothing else (no
\* keyword check, retriever build, model call or agent run) and returns
\* the "no documents" message (the apology if the lookup itself raised).
C7_NoDocumentsShortCircuits ==
    \A t \in Threads :
        LET c == call[t]
        IN (c.pc # "idle"
            /\ (c.chat_id \notin chat_sessions
                \/ chat_documents[c.chat_id] = <<>>)) =>
             /\ c.pc \in {"lookup", "done"}
             /\ Range(c.log) \subseteq {"get_chat_session", "get_chat_session!"}
             /\ ~c.retriever.built
             /\ c.pc = "done" =>
                  /\ Gained(c) = <<>>
                  /\ IF "get_chat_session" \in Range(c.log)
                     THEN c.tier = "none" /\ c.result = NoDocsMsg
                     ELSE c.tier = "error" /\ c.result = ApologyMsg

\* a call on an existing session without documents returned "no documents"
C7_Witness ==
    \E t \in Threads :
        /\ call[t].pc = "done"
        /\ call[t].chat_id \in chat_sessions
        /\ chat_documents[call[t].chat_id] = <<>>
        /\ call[t].result = NoDocsMsg

\* every list of at most two document ids
DocIdLists ==
    {<<>>} \cup {<<d>> : d \in DocIds} \cup {<<d, e>> : d \in DocIds, e \in DocIds}

\* C8: get_multi_document_retriever returns None for an empty id list and
\* for documents with no chunk at all; a call on a session whose attached
\* documents have no chunk returns the "no content" message (the apology
\* if the chunk query raised) and starts no tier, whatever the question.
C8_ZeroChunksShortCircuits ==
    /\ \A ids \in DocIdLists :
         (ids = <<>> \/ \A ch \in chunks : ch.documentId \notin Range(ids)) =>
             GetMultiDocumentRetriever(ids) = [built |-> FALSE, texts |-> {}]
    /\ \A t \in Threads :
         LET c == call[t]
         IN (c.docs # <<>>
             /\ \A ch \in chunks : ch.documentId \notin Range(c.docs)) =>
              /\ c.pc \in {"retriever", "done"}
              /\ ~c.retriever.built
              /\ Range(c.log) \subseteq
                   {"get_chat_session", "get_chunks_for_documents",
                    "get_chunks_for_documents!"}
              /\ c.pc = "done" =>
                   /\ Gained(c) = <<>>
                   /\ IF "get_chunks_for_documents" \in Range(c.log)
                      THEN c.tier = "none" /\ c.result = NoContentMsg
                      ELSE c.tier = "error" /\ c.result = ApologyMsg

\* a system-status question on a session whose documents have no chunk
\* returned "no content"
C8_Witness ==
    \E t \in Threads :
        /\ call[t].pc = "done"
        /\ call[t].docs # <<>>
        /\ \E keyword \in system_keywords :
              Contains(Lower(call[t].question), keyword)
        /\ call[t].result = NoContentMsg

\* C9: a create_chat_message that fails while ask_question persists an
\* answer reaches the caller as an exception; the call neither goes on to
\* another tier nor returns a normal answer.
C9_PersistenceFailureReachesCaller ==
    \A t \in Threads :
        LET c == call[t]
            failed == FirstPos(c.log, PersistFailures)
        IN failed > 0 =>
             /\ \A i \in (failed + 1)..Len(c.log) :
                    c.log[i] \notin AgenticTierEvents
             /\ c.pc = "done" => (c.raised /\ c.tier \notin TierAnswers)

\* C10: every ask_question call ends by returning a result to its caller,
\* never by raising, whichever collaborator failed at whichever step.
C10_AskQuestionNeverRaises ==
    \A t \in Threads :
        LET c == call[t]
        IN c.pc = "done" =>
             /\ ~c.raised
             /\ c.result \in {NoDocsMsg, NoContentMsg, ApologyMsg,
                              SystemAnswer(c.names), c.direct_result,
                              c.agent_result}
             /\ c.result # <<>>

\* a call whose web-search tool could not be constructed returned the apology
C10_Witness ==
    \E t \in Threads :
        /\ call[t].pc = "done"
        /\ "get_web_search_tool!" \in Range(call[t].log)
        /\ call[t].result = ApologyMsg

\* the chunks of one document in a chunks table
ChunksOf(table, d) == {ch \in table : ch.documentId = d}

\* the retrieval pool ask_question builds for a chat from the store as it
\* is: chat.documents, then get_multi_document_retriever
RetrievalPool(c) == GetMultiDocumentRetriever(chat_documents[c]).texts

\* C11: right after remove_document_from_chat(c, d), the pool the next
\* ask_question on c builds holds no chunk of d and d is no longer attached
\* to c, while the documents table, the chunks table, the other documents
\* of c, the documents of every other chat and all messages are as before.
C11_RemoveLeavesDocumentAndOtherChats ==
    request.op = "remove_document_from_chat" =>
        LET c == request.chat_id
            d == request.doc_id
            b == request.before
        IN /\ \A ch \in RetrievalPool(c) : ch.documentId # d
           /\ d \notin Range(chat_documents[c])
           /\ chat_documents[c] =
                SelectSeq(b.chat_documents[c], LAMBDA x : x # d)
           /\ documents = b.documents
           /\ chunks = b.chunks
           /\ \A o \in ChatIds \ {c} :
                 chat_documents[o] = b.chat_documents[o]
           /\ chat_messages = b.chat_messages

\* a document with chunks was removed from a chat that has messages and
\* another document with chunks, while it is attached to the other chat too
C11_Witness ==
    /\ request.op = "remove_document_from_chat"
    /\ request.doc_id \in Range(request.before.chat_documents[request.chat_id])
    /\ ChunksOf(chunks, request.doc_id) # {}
    /\ RetrievalPool(request.chat_id) # {}
    /\ chat_messages[request.chat_id] # <<>>
    /\ \E o \in ChatIds \ {request.chat_id} :
          request.doc_id \in Range(chat_documents[o])

\* C12: right after delete_document(d) no chunk of d exists and d is in
\* no chat's documents, while every other document, the chunks of every
\* other document, every chat's other documents (in their order), the
\* sessions and all messages are as before.
C12_DeleteDocumentCascades ==
    request.op = "delete_document" =>
        LET d == request.doc_id
            b == request.before
        IN /\ d \notin DOMAIN documents
           /\ ChunksOf(chunks, d) = {}
           /\ \A c \in ChatIds : d \notin Range(chat_documents[c])
           /\ DOMAIN documents = (DOMAIN b.documents) \ {d}
           /\ \A o \in DOMAIN documents : documents[o] = b.documents[o]
           /\ \A o \in DocIds \ {d} :
                 ChunksOf(chunks, o) = ChunksOf(b.chunks, o)
           /\ \A c \in ChatIds :
                 chat_documents[c] =
                    SelectSeq(b.chat_documents[c], LAMBDA x : x # d)
           /\ chat_messages = b.chat_messages
           /\ chat_sessions = b.chat_sessions
           /\ chat_name = b.chat_name

\* a document with chunks was deleted while attached to both chats, one
\* of them holding another document with chunks and a message
C12_Witness ==
    /\ request.op = "delete_document"
    /\ ChunksOf(request.before.chunks, request.doc_id) # {}
    /\ \A c \in ChatIds :
          request.doc_id \in Range(request.before.chat_documents[c])
    /\ \E c \in ChatIds :
          /\ chat_documents[c] # <<>>
          /\ AttachedChunks(c) # {}
          /\ chat_messages[c] # <<>>

\* C13: right after clear_chat_history(c) session c has no message, while
\* the documents of c, its name, the sessions, every document and chunk
\* and the messages of every other session are as before.
C13_ClearHistoryLeavesTheRest ==
    request.op = "clear_chat_history" =>
        LET c == request.chat_id
            b == request.before
        IN /\ chat_messages[c] = <<>>
           /\ chat_documents = b.chat_documents
           /\ chat_name = b.chat_name
           /\ chat_sessions = b.chat_sessions
           /\ documents = b.documents
           /\ chunks = b.chunks
           /\ \A o \in ChatIds \ {c} :
                 chat_messages[o] = b.chat_messages[o]

\* the history of a session with a document was cleared while the other
\* session has a message
C13_Witness ==
    /\ request.op = "clear_chat_history"
    /\ request.before.chat_messages[request.chat_id] # <<>>
    /\ chat_documents[request.chat_id] # <<>>
    /\ \E o \in ChatIds \ {request.chat_id} : chat_messages[o] # <<>>

\* C14: no chat's documents ever hold a document twice, and right after
\* add_document_to_chat(c, d) for a document already attached to c every
\* chat's documents are as before.
C14_NoDuplicateAssociation ==
    /\ \A c \in ChatIds :
         \A i, j \in 1..Len(chat_documents[c]) :
            i # j => chat_documents[c][i] # chat_documents[c][j]
    /\ (request.op = "add_document_to_chat"
        /\ request.doc_id \in
              Range(request.before.chat_documents[request.chat_id])) =>
            chat_documents = request.before.chat_documents

\* an attached document was added again to a chat that holds two documents
C14_Witness ==
    /\ request.op = "add_document_to_chat"
    /\ request.doc_id \in Range(request.before.chat_documents[request.chat_id])
    /\ Len(chat_documents[request.chat_id]) = 2

\* C15: when an upload of several files has ended, every file of the
\* batch other than the one whose process_pdf raised is ingested and
\* attached to the current chat.
C15_SiblingFilesStillIngested ==
    (request.op = "upload" /\ request.pc \in {"done", "raised"}) =>
        \A i \in 1..Len(request.files) :
            request.files[i] # request.doc_id =>
                /\ request.files[i] \in DOMAIN documents
                /\ request.files[i] \in Range(chat_documents[request.chat_id])

\* C16: every way the request of serper_search can end yields a string as
\* the tool's output, and no ask_question call ends in the outer except
\* because of the web-search tool.
C16_WebSearchFailureNeverEndsAgenticTier ==
    /\ \A response \in SerperResponses : SerperSearch(response) # Raises
    /\ \A t \in Threads :
         "get_web_search_tool!" \in Range(call[t].log) =>
             ~(call[t].pc = "done" /\ call[t].tier = "error")

\* the distance from the query to the text of a search result
DistanceOf(result) ==
    vector_store.distance[
        CHOOSE i \in 1..Len(vector_store.texts) :
            vector_store.texts[i] = result.content]

\* C17: a search with k >= 1 on an index built over the store's n >= 1
\* texts returns min(k, n) results, with different contents, in order of
\* non-decreasing distance.
C17_SearchReturnsMinKN ==
    LET v == vector_store
        n == Len(v.texts)
    IN (n >= 1 /\ v.indexed = n /\ v.k >= 1 /\ ~v.raised) =>
         /\ Len(v.results) = IF v.k < n THEN v.k ELSE n
         /\ \A i, j \in 1..Len(v.results) :
               i < j => /\ v.results[i].content # v.results[j].content
                        /\ DistanceOf(v.results[i]) <= DistanceOf(v.results[j])

\* C18: the chunks stored for a document carry the indices 0..m-1 once
\* each, the chunk with index i holding the chunker's piece i, also after
\* an ingestion that raised part-way; and the chunks of a document that
\* existed before the last request differ from what they were only where
\* that request deleted the document.
C18_ChunkIndicesContiguous ==
    /\ \A d \in DocIds :
         LET own == ChunksOf(chunks, d)
             m == Cardinality(own)
         IN /\ {ch.chunkIndex : ch \in own} = 0..(m - 1)
            /\ \A ch \in own :
                  ch.content = ChunkText(d, m)[ch.chunkIndex + 1].content
    /\ \A d \in DOMAIN request.before.documents :
         ChunksOf(chunks, d) # ChunksOf(request.before.chunks, d) =>
             (request.op = "delete_document" /\ request.doc_id = d)

\* an upload ended in a create_chunk that raised after a chunk was stored
C18_Witness ==
    /\ request.op = "upload"
    /\ request.pc = "raised"
    /\ request.step = "create_chunk"
    /\ ChunksOf(chunks, request.doc_id) # {}

\* C19: when process_pdf raised after its Document row was created, the
\* store holds neither that document nor any chunk of it.
C19_FailedIngestionLeavesNothing ==
    (request.op = "upload" /\ request.pc = "raised"
     /\ request.step # "create_document") =>
        /\ request.doc_id \notin DOMAIN documents
        /\ ChunksOf(chunks, request.doc_id) = {}

\* C20: the model call of the direct tier of every call runs on a chain
\* over the retriever built by that same call.
C20_GetAnswerRunsOnOwnChain ==
    \A t \in Threads :
        (\E i \in 1..Len(call[t].log) : call[t].log[i] \in {"llm", "llm!"}) =>
            call[t].chain_texts = call[t].retriever.texts

\* C21: right after add_document_to_chat(c, d) the name of c differs from
\* what it was only if the call attached d as the first document of c and
\* c had one of the default names it can be created with; a call that
\* attached nothing, and a call on a chat carrying a name the user gave
\* it, leave the name of c as it was; no other chat's name changes.
C21_RenameOnlyOnFirstAttachOfDefaultName ==
    request.op = "add_document_to_chat" =>
        LET c == request.chat_id
            b == request.before
            attached == chat_documents[c] # b.chat_documents[c]
        IN /\ \A o \in ChatIds \ {c} : chat_name[o] = b.chat_name[o]
           /\ chat_name[c] # b.chat_name[c] =>
                /\ attached
                /\ b.chat_documents[c] = <<>>
                /\ b.chat_name[c] \in DefaultNames
           /\ ~attached => chat_name[c] = b.chat_name[c]
           /\ b.chat_name[c] \in UserNames => chat_name[c] = b.chat_name[c]

====
